---- MODULE Spec2Model ----
(***************************************************************************)
(* A model of mcl::AudioBuffer (src/src/audioBuffer.hpp, audioBuffer.cpp). *)
(*                                                                         *)
(* The heap is a set of storage blocks; an AudioBuffer object holds a      *)
(* std::unique_ptr<float[]> (m_data), m_size, m_channels and m_viewing.    *)
(* Samples are floats in the code; the model uses small naturals, on which *)
(* float addition and multiplication are exact.                            *)
(*                                                                         *)
(* The model is of the build with assert() enabled: a failed assert aborts *)
(* the process (status "aborted").  An access outside a live block, or a   *)
(* second delete[] of a block, is undefined behaviour: the step ends in    *)
(* status "ub", a terminal state that stands for every outcome.  No        *)
(* statement below is established by what follows an "ub" state.           *)
(***************************************************************************)
EXTENDS Integers, Sequences, FiniteSets, TLC

VARIABLES heap, bufs, raw, status, last

vars == <<heap, bufs, raw, status, last>>

\* ------------------------------------------------------------------ bounds

MaxFrames == 2
MaxChannels == 3
MaxLifecycleChannels == 1
MaxWrite == 1
MaxGain == 2
MaxBlocks == 2

\* ------------------------------------------------------------------ data

\* nullptr
NULL == 0

\* The gain a set()/sum() call gets when the caller passes none.
DefaultGain == 1

\* The "copy all" / "to the end" sentinel of framesToCopy and of range ends.
Sentinel == -1

Bufs == {"x", "y"}

\* Blocks 1..MaxBlocks are the ones make_unique hands out, each at most once
\* (an address is never reused, so that a stale pointer stays recognisable).
\* ExtBlock is the array the external caller owns (the test's `raw`), of
\* ExtLen floats.
ExtBlock == MaxBlocks + 1
ExtLen == MaxFrames
Blocks == 1..(MaxBlocks + 1)

Frames == 0..MaxFrames
Channels == 0..MaxChannels
LifecycleChannels == 0..MaxLifecycleChannels
Written == 0..MaxWrite
Gains == 1..MaxGain

Zeros(n) == [i \in 1..n |-> 0]

Min(a, b) == IF a < b THEN a ELSE b

\* A default-constructed AudioBuffer.
EmptyBuffer ==
    [alive |-> TRUE, m_data |-> NULL, m_size |-> 0, m_channels |-> 0, m_viewing |-> FALSE]

\* A slot holding no object (before construction, after destruction).
NoBuffer ==
    [alive |-> FALSE, m_data |-> NULL, m_size |-> 0, m_channels |-> 0, m_viewing |-> FALSE]

\* A machine state: what a member function reads and changes.
Machine == [heap |-> heap, bufs |-> bufs, status |-> status, calls |-> <<>>]

countFrames(m, b) == m.bufs[b].m_size
countSamples(m, b) == m.bufs[b].m_size * m.bufs[b].m_channels
countChannels(m, b) == m.bufs[b].m_channels
isAllocd(m, b) == m.bufs[b].m_data # NULL

\* ------------------------------------------------------------------ heap

UnusedBlocks(h) == {p \in 1..MaxBlocks : h[p].st = "unused"}

NewBlock(h) == CHOOSE p \in UnusedBlocks(h) : \A q \in UnusedBlocks(h) : p <= q

\* delete[] p, by a buffer's unique_ptr or by the external owner.
Delete(m, p, who) ==
    IF p = NULL \/ m.status # "running" THEN m
    ELSE IF m.heap[p].st = "live"
         THEN [m EXCEPT !.heap[p] = [st |-> "freed", data |-> <<>>, by |-> who]]
         ELSE [m EXCEPT !.status = "ub"]

\* unique_ptr::reset(p): take p, delete[] what was held.
Reset(m, b, p) ==
    IF m.status # "running" THEN m
    ELSE Delete([m EXCEPT !.bufs[b].m_data = p], m.bufs[b].m_data, "buffer")

\* unique_ptr::release(): drop the pointer, delete nothing.
Release(m, b) ==
    IF m.status # "running" THEN m
    ELSE [m EXCEPT !.bufs[b].m_data = NULL]

\* m_data = std::make_unique<float[]>(n): a fresh value-initialised block of
\* n floats (non-null also for n = 0), move-assigned to m_data.
MakeUnique(m, b, n) ==
    IF m.status # "running" THEN m
    ELSE LET p == NewBlock(m.heap)
         IN Reset([m EXCEPT !.heap[p] = [st |-> "live", data |-> Zeros(n), by |-> "none"]],
                  b, p)

\* ------------------------------------------------------------------ samples

\* Whether flat index i of b's storage is a float of a live block.
Valid(m, b, i) ==
    LET p == m.bufs[b].m_data
    IN /\ p # NULL
       /\ m.heap[p].st = "live"
       /\ i >= 0
       /\ i < Len(m.heap[p].data)

Load(m, b, i) == m.heap[m.bufs[b].m_data].data[i + 1]

Store(m, b, i, v) == [m EXCEPT !.heap[m.bufs[b].m_data].data[i + 1] = v]

\* operator[]: its two asserts, and the flat index of the frame it returns.
IndexAsserts(m, b, offset) ==
    /\ m.bufs[b].m_data # NULL
    /\ offset < m.bufs[b].m_size

FrameStart(m, b, offset) == offset * m.bufs[b].m_channels

\* ------------------------------------------------------------------ lifecycle

clear(m, b, a, e) ==
    IF m.status # "running" \/ m.bufs[b].m_data = NULL THEN m
    ELSE LET p == m.bufs[b].m_data
             end == IF e = Sentinel THEN m.bufs[b].m_size ELSE e
             first == a * m.bufs[b].m_channels
             n == (end - a) * m.bufs[b].m_channels
             idx == first..(first + n - 1)
         IN IF \A i \in idx : Valid(m, b, i)
            THEN [m EXCEPT !.heap[p].data =
                      [i \in DOMAIN @ |-> IF (i - 1) \in idx THEN 0 ELSE @[i]]]
            ELSE [m EXCEPT !.status = "ub"]

\* free() that forgets to reset the viewing flag.
freeKeepsViewing(m, b) ==
    IF m.status # "running" THEN m
    ELSE LET m1 == IF m.bufs[b].m_viewing THEN Release(m, b) ELSE Reset(m, b, NULL)
         IN [m1 EXCEPT !.bufs[b].m_size = 0,
                       !.bufs[b].m_channels = 0]

free(m, b) ==
    IF m.status # "running" THEN m
    ELSE LET m1 == IF m.bufs[b].m_viewing THEN Release(m, b) ELSE Reset(m, b, NULL)
         IN [m1 EXCEPT !.bufs[b].m_size = 0,
                       !.bufs[b].m_channels = 0,
                       !.bufs[b].m_viewing = FALSE]

\* alloc() that does not free() first.
allocWithoutFree(m, b, size, channels) ==
    LET m2 == [m EXCEPT !.bufs[b].m_size = size, !.bufs[b].m_channels = channels]
        m3 == MakeUnique(m2, b, size * channels)
    IN clear(m3, b, 0, Sentinel)

alloc(m, b, size, channels) ==
    LET m1 == free(m, b)
        m2 == [m1 EXCEPT !.bufs[b].m_size = size, !.bufs[b].m_channels = channels]
        m3 == MakeUnique(m2, b, size * channels)
    IN clear(m3, b, 0, Sentinel)

move(m, b, o) ==
    LET p == m.bufs[o].m_data
        m1 == Reset([m EXCEPT !.bufs[o].m_data = NULL], b, p)
    IN [m1 EXCEPT !.bufs[b].m_size = m.bufs[o].m_size,
                  !.bufs[b].m_channels = m.bufs[o].m_channels,
                  !.bufs[b].m_viewing = m.bufs[o].m_viewing,
                  !.bufs[o].m_size = 0,
                  !.bufs[o].m_channels = 0,
                  !.bufs[o].m_viewing = FALSE]

copy(m, b, o) ==
    LET n == m.bufs[o].m_size * m.bufs[o].m_channels
        m1 == MakeUnique(m, b, n)
        m2 == [m1 EXCEPT !.bufs[b].m_size = m.bufs[o].m_size,
                         !.bufs[b].m_channels = m.bufs[o].m_channels,
                         !.bufs[b].m_viewing = m.bufs[o].m_viewing]
    IN IF m2.status # "running" THEN m2
       ELSE IF \A i \in 0..(n - 1) : Valid(m2, o, i)
            THEN [m2 EXCEPT !.heap[m2.bufs[b].m_data].data =
                      [i \in 1..n |-> Load(m2, o, i - 1)]]
            ELSE [m2 EXCEPT !.status = "ub"]

\* ------------------------------------------------------------------ merge

Abort(m) == [m EXCEPT !.status = "aborted"]

Undefined(m) == [m EXCEPT !.status = "ub"]

\* b[srcF][srcChannel]: operator[] on the source, then the read.
SourceReadable(m, s, srcF, srcChannel) ==
    Valid(m, s, FrameStart(m, s, srcF) + srcChannel)

\* Put with sum() storing like set(): "=" where the code has "+=".
PutAssignOnly(m, d, O, f, channel, val) ==
    LET i == FrameStart(m, d, f) + channel
    IN IF ~IndexAsserts(m, d, f) THEN Abort(m)
       ELSE IF ~Valid(m, d, i) THEN Undefined(m)
       ELSE Store(m, d, i, val)

\* The private sum(f, channel, val) and set(f, channel, val): operator[] on the
\* destination, then the store. O is "SUM" or "SET".
Put(m, d, O, f, channel, val) ==
    LET i == FrameStart(m, d, f) + channel
    IN IF ~IndexAsserts(m, d, f) THEN Abort(m)
       ELSE IF ~Valid(m, d, i) THEN Undefined(m)
       ELSE Store(m, d, i, IF O = "SUM" THEN Load(m, d, i) + val ELSE val)

\* The loop of merge<O>. c holds the call's arguments; the result is the
\* machine and the number of frames stored.
RECURSIVE MergeLoop(_, _, _, _, _, _)
MergeLoop(m, d, s, c, framesToCopy, destF) ==
    LET srcF == c.srcOffset + destF
    IN IF ~(destF < framesToCopy /\ destF < countFrames(m, s))
       THEN [m |-> m, n |-> destF]
       ELSE IF ~IndexAsserts(m, s, srcF)
            THEN [m |-> Abort(m), n |-> destF]
       ELSE IF ~SourceReadable(m, s, srcF, c.srcChannel)
            THEN [m |-> Undefined(m), n |-> destF]
       ELSE LET val == Load(m, s, FrameStart(m, s, srcF) + c.srcChannel) * c.gain
                m1 == Put(m, d, c.O, destF + c.destOffset, c.destChannel, val)
            IN IF m1.status # "running"
               THEN [m |-> m1, n |-> destF]
               ELSE MergeLoop(m1, d, s, c, framesToCopy, destF + 1)

\* merge<O>(b, framesToCopy, srcOffset, destOffset, srcChannel, destChannel,
\* gain) on buffer d with b = s.  Every call is appended to m.calls with the
\* number of frames it stored.
merge(m, d, s, c) ==
    IF m.status # "running" THEN m
    ELSE IF ~(/\ m.bufs[d].m_data # NULL
              /\ c.destOffset >= 0 /\ c.destOffset < m.bufs[d].m_size
              /\ c.srcChannel >= 0 /\ c.srcChannel < countChannels(m, s)
              /\ c.destChannel >= 0 /\ c.destChannel < countChannels(m, d))
         THEN [Abort(m) EXCEPT !.calls = Append(@, [srcChannel |-> c.srcChannel,
                                                    destChannel |-> c.destChannel,
                                                    gain |-> c.gain, written |-> 0])]
    ELSE LET ftc1 == IF c.framesToCopy = Sentinel THEN countFrames(m, s)
                     ELSE c.framesToCopy
             ftc2 == Min(ftc1, m.bufs[d].m_size - c.destOffset)
             r == MergeLoop(m, d, s, c, ftc2, 0)
         IN [r.m EXCEPT !.calls = Append(@, [srcChannel |-> c.srcChannel,
                                             destChannel |-> c.destChannel,
                                             gain |-> c.gain, written |-> r.n])]

\* The arguments of one merge<O> call.
MergeArgs(O, framesToCopy, srcOffset, destOffset, srcChannel, destChannel, gain) ==
    [O |-> O, framesToCopy |-> framesToCopy, srcOffset |-> srcOffset,
     destOffset |-> destOffset, srcChannel |-> srcChannel,
     destChannel |-> destChannel, gain |-> gain]

\* MergeAllLoop with the source channel held at the last one instead of
\* wrapped to the first.
RECURSIVE MergeAllLoopClamped(_, _, _, _, _, _)
MergeAllLoopClamped(m, d, s, c, destCh, srcCh0) ==
    IF m.status # "running" \/ ~(destCh < countChannels(m, d)) THEN m
    ELSE LET srcCh == IF srcCh0 = countChannels(m, s) THEN srcCh0 - 1 ELSE srcCh0
             m1 == merge(m, d, s,
                         MergeArgs(c.O, c.framesToCopy, c.srcOffset, c.destOffset,
                                   srcCh, destCh, DefaultGain))
         IN MergeAllLoopClamped(m1, d, s, c, destCh + 1, srcCh + 1)

\* The loop of mergeAll<O>: it calls the public sum(b, framesToCopy, srcOffset,
\* destOffset, srcCh, destCh) or set(...) with six arguments, so that their
\* seventh, gain, takes its default.
RECURSIVE MergeAllLoop(_, _, _, _, _, _)
MergeAllLoop(m, d, s, c, destCh, srcCh0) ==
    IF m.status # "running" \/ ~(destCh < countChannels(m, d)) THEN m
    ELSE LET srcCh == IF srcCh0 = countChannels(m, s) THEN 0 ELSE srcCh0
             m1 == merge(m, d, s,
                         MergeArgs(c.O, c.framesToCopy, c.srcOffset, c.destOffset,
                                   srcCh, destCh, DefaultGain))
         IN MergeAllLoop(m1, d, s, c, destCh + 1, srcCh + 1)

\* mergeAll<O>(b, framesToCopy, srcOffset, destOffset, gain).
mergeAll(m, d, s, c) == MergeAllLoop(m, d, s, c, 0, 0)

\* ------------------------------------------------------------------ ranges

\* applyGain(g, a, b).
applyGain(m, b, g, a, e) ==
    IF ~(a >= 0) THEN Abort(m)
    ELSE IF ~(e < countSamples(m, b)) THEN Abort(m)
    ELSE IF e = Sentinel /\ ~(a < countSamples(m, b)) THEN Abort(m)
    ELSE LET end == IF e = Sentinel THEN countSamples(m, b) ELSE e
             idx == a..(end - 1)
             p == m.bufs[b].m_data
         IN IF idx = {} THEN m
            ELSE IF \A i \in idx : Valid(m, b, i)
            THEN [m EXCEPT !.heap[p].data =
                      [i \in DOMAIN @ |-> IF (i - 1) \in idx THEN @[i] * g ELSE @[i]]]
            ELSE Undefined(m)

\* The loop of getPeak: the machine and the peak so far.
RECURSIVE PeakLoop(_, _, _, _, _, _)
PeakLoop(m, b, channel, i, e, peak) ==
    IF ~(i < e) THEN [m |-> m, ret |-> peak]
    ELSE IF ~IndexAsserts(m, b, i) THEN [m |-> Abort(m), ret |-> peak]
    ELSE IF ~Valid(m, b, FrameStart(m, b, i) + channel)
         THEN [m |-> Undefined(m), ret |-> peak]
    ELSE LET v == Load(m, b, FrameStart(m, b, i) + channel)
         IN PeakLoop(m, b, channel, i + 1, e, IF v > peak THEN v ELSE peak)

\* getPeak(channel, a, b).
getPeak(m, b, channel, a, e) ==
    IF ~(/\ channel < m.bufs[b].m_channels
         /\ a >= 0
         /\ (e = Sentinel \/ a < e)
         /\ (e = Sentinel \/ e <= countFrames(m, b)))
    THEN [m |-> Abort(m), ret |-> 0]
    ELSE PeakLoop(m, b, channel, a, IF e = Sentinel THEN countFrames(m, b) ELSE e, 0)

\* operator[](offset): the pointer m_data.get() + offset * m_channels, as a
\* flat index.  Forming a pointer outside the block (one past its end is
\* allowed) is undefined.
Subscript(m, b, offset) ==
    LET i == FrameStart(m, b, offset)
        p == m.bufs[b].m_data
    IN IF ~IndexAsserts(m, b, offset) THEN [m |-> Abort(m), ret |-> 0]
       ELSE IF m.heap[p].st = "live" /\ i >= 0 /\ i <= Len(m.heap[p].data)
            THEN [m |-> m, ret |-> i]
            ELSE [m |-> Undefined(m), ret |-> i]

\* ------------------------------------------------------------------ actions

\* A call's effect becomes the next state; `last` keeps the call's name and
\* arguments and, for alloc and free, the object as it was before the call.
Commit(m, l) ==
    /\ heap' = m.heap
    /\ bufs' = m.bufs
    /\ status' = m.status
    /\ last' = l
    /\ UNCHANGED raw

CanAllocate == UnusedBlocks(heap) # {}

Ctor1(b) ==
    /\ status = "running"
    /\ ~bufs[b].alive
    /\ Commit([Machine EXCEPT !.bufs[b] = EmptyBuffer], [op |-> "ctor1", d |-> b])

Ctor2(b, size, channels) ==
    /\ status = "running"
    /\ ~bufs[b].alive
    /\ CanAllocate
    /\ Commit(alloc([Machine EXCEPT !.bufs[b] = EmptyBuffer], b, size, channels),
              [op |-> "ctor2", d |-> b, size |-> size, channels |-> channels])

Ctor3(b, size, channels) ==
    /\ status = "running"
    /\ ~bufs[b].alive
    /\ raw # NULL
    /\ size * channels = ExtLen
    /\ Commit([Machine EXCEPT !.bufs[b] =
                   [alive |-> TRUE, m_data |-> raw, m_size |-> size,
                    m_channels |-> channels, m_viewing |-> TRUE]],
              [op |-> "ctor3", d |-> b, size |-> size, channels |-> channels])

CopyCtor(b, o) ==
    /\ status = "running"
    /\ ~bufs[b].alive
    /\ bufs[o].alive
    /\ CanAllocate
    /\ Commit(copy([Machine EXCEPT !.bufs[b] = EmptyBuffer], b, o),
              [op |-> "copyCtor", d |-> b, s |-> o])

MoveCtor(b, o) ==
    /\ status = "running"
    /\ ~bufs[b].alive
    /\ bufs[o].alive
    /\ Commit(move([Machine EXCEPT !.bufs[b] = EmptyBuffer], b, o),
              [op |-> "moveCtor", d |-> b, s |-> o])

Dtor(b) ==
    /\ status = "running"
    /\ bufs[b].alive
    /\ Commit([free(Machine, b) EXCEPT !.bufs[b].alive = FALSE],
              [op |-> "dtor", d |-> b])

CopyAssign(b, o) ==
    /\ status = "running"
    /\ bufs[b].alive
    /\ bufs[o].alive
    /\ b = o \/ CanAllocate
    /\ Commit(IF b = o THEN Machine ELSE copy(Machine, b, o),
              [op |-> "copyAssign", d |-> b, s |-> o])

MoveAssign(b, o) ==
    /\ status = "running"
    /\ bufs[b].alive
    /\ bufs[o].alive
    /\ Commit(IF b = o THEN Machine ELSE move(Machine, b, o),
              [op |-> "moveAssign", d |-> b, s |-> o])

Alloc(b, size, channels) ==
    /\ status = "running"
    /\ bufs[b].alive
    /\ CanAllocate
    /\ Commit(alloc(Machine, b, size, channels),
              [op |-> "alloc", d |-> b, size |-> size, channels |-> channels,
               was |-> bufs[b]])

Free(b) ==
    /\ status = "running"
    /\ bufs[b].alive
    /\ Commit(free(Machine, b), [op |-> "free", d |-> b, was |-> bufs[b]])

\* buffer[f][c] = v, as the callers (fillBufferWithData) write samples.
Write(b, f, c, v) ==
    /\ status = "running"
    /\ bufs[b].alive
    /\ f < bufs[b].m_size
    /\ c < bufs[b].m_channels
    /\ LET i == FrameStart(Machine, b, f) + c
           m == IF ~IndexAsserts(Machine, b, f) THEN [Machine EXCEPT !.status = "aborted"]
                ELSE IF Valid(Machine, b, i) THEN Store(Machine, b, i, v)
                ELSE [Machine EXCEPT !.status = "ub"]
       IN Commit(m, [op |-> "write", d |-> b, f |-> f, c |-> c, v |-> v])

\* The external owner's unique_ptr goes out of scope; a caller that keeps
\* its side of the view contract does this only when no buffer holds the array.
RawFree ==
    /\ status = "running"
    /\ raw # NULL
    /\ \A b \in Bufs : bufs[b].m_data # raw
    /\ LET m == Delete(Machine, raw, "owner")
       IN /\ heap' = m.heap
          /\ bufs' = m.bufs
          /\ status' = m.status
          /\ raw' = NULL
          /\ last' = [op |-> "rawFree", d |-> "-"]

Init ==
    /\ heap = [p \in Blocks |->
                  IF p = ExtBlock
                  THEN [st |-> "live", data |-> Zeros(ExtLen), by |-> "none"]
                  ELSE [st |-> "unused", data |-> <<>>, by |-> "none"]]
    /\ bufs = [b \in Bufs |-> NoBuffer]
    /\ raw = ExtBlock
    /\ status = "running"
    /\ last = [op |-> "init", d |-> "-"]

Construct ==
    \E b \in Bufs :
        \/ Ctor1(b)
        \/ \E size \in Frames, channels \in LifecycleChannels : Ctor2(b, size, channels)
        \/ \E size \in Frames, channels \in LifecycleChannels : Ctor3(b, size, channels)
        \/ \E o \in Bufs : CopyCtor(b, o)
        \/ \E o \in Bufs : MoveCtor(b, o)

Assign ==
    \E b \in Bufs, o \in Bufs :
        \/ CopyAssign(b, o)
        \/ MoveAssign(b, o)

Lifecycle ==
    \E b \in Bufs :
        \/ \E size \in Frames, channels \in LifecycleChannels : Alloc(b, size, channels)
        \/ Free(b)
        \/ Dtor(b)

WriteSample ==
    \E b \in Bufs, f \in Frames, c \in LifecycleChannels, v \in Written :
        Write(b, f, c, v)

Next ==
    \/ Construct
    \/ Assign
    \/ Lifecycle
    \/ WriteSample
    \/ RawFree

Spec == Init /\ [][Next]_vars

\* ------------------------------------------------------------------ calls

\* The specifications below study one call on two prepared buffers: x and y
\* are default-constructed or alloc()ed, in this order, and filled by the
\* caller through operator[], every sample of the two with a value of its own.
\* The calls leave bufs alone unless they are free() or a move, so that a
\* block's samples before the call are its FillValues.
Unallocated == <<>>

Shapes == {Unallocated} \cup (Frames \X Channels)

\* The value the caller writes at flat index i - 1 of block p.
FillValue(p, i) == (p - 1) * MaxFrames * MaxChannels + i

Fill(m, b) ==
    IF m.bufs[b].m_data = NULL THEN m
    ELSE [m EXCEPT !.heap[m.bufs[b].m_data].data =
              [i \in DOMAIN @ |-> FillValue(m.bufs[b].m_data, i)]]

InitHeap ==
    [p \in Blocks |->
        IF p = ExtBlock
        THEN [st |-> "live", data |-> Zeros(ExtLen), by |-> "none"]
        ELSE [st |-> "unused", data |-> <<>>, by |-> "none"]]

Fresh ==
    [heap |-> InitHeap, bufs |-> [b \in Bufs |-> EmptyBuffer], status |-> "running",
     calls |-> <<>>]

Prepare(m, b, shape) ==
    IF shape = Unallocated THEN m ELSE Fill(alloc(m, b, shape[1], shape[2]), b)

InitFilled ==
    \E sx \in Shapes, sy \in Shapes :
        LET m == Prepare(Prepare(Fresh, "x", sx), "y", sy)
        IN /\ heap = m.heap
           /\ bufs = m.bufs
           /\ raw = ExtBlock
           /\ status = "running"
           /\ last = [op |-> "init", d |-> "-"]

FirstCall == status = "running" /\ last.op = "init"

FtcArgs == Sentinel..(MaxFrames + 1)
OffsetArgs == (-1)..MaxFrames
ChannelArgs == (-1)..MaxChannels

MergeRecord(op, form, d, s, c, m) ==
    [op |-> op, form |-> form, d |-> d, s |-> s, framesToCopy |-> c.framesToCopy,
     srcOffset |-> c.srcOffset, destOffset |-> c.destOffset,
     srcChannel |-> c.srcChannel, destChannel |-> c.destChannel, gain |-> c.gain,
     calls |-> m.calls]

\* sum, set (1)
Sum(d, s, framesToCopy, srcOffset, destOffset, srcChannel, destChannel, gain) ==
    LET c == MergeArgs("SUM", framesToCopy, srcOffset, destOffset, srcChannel,
                       destChannel, gain)
        m == merge(Machine, d, s, c)
    IN Commit(m, MergeRecord("sum", "long", d, s, c, m))

Set(d, s, framesToCopy, srcOffset, destOffset, srcChannel, destChannel, gain) ==
    LET c == MergeArgs("SET", framesToCopy, srcOffset, destOffset, srcChannel,
                       destChannel, gain)
        m == merge(Machine, d, s, c)
    IN Commit(m, MergeRecord("set", "long", d, s, c, m))

\* sum, set (2)
Sum2(d, s, srcChannel, destChannel, gain) ==
    LET c == MergeArgs("SUM", Sentinel, 0, 0, srcChannel, destChannel, gain)
        m == merge(Machine, d, s, c)
    IN Commit(m, MergeRecord("sum", "short", d, s, c, m))

Set2(d, s, srcChannel, destChannel, gain) ==
    LET c == MergeArgs("SET", Sentinel, 0, 0, srcChannel, destChannel, gain)
        m == merge(Machine, d, s, c)
    IN Commit(m, MergeRecord("set", "short", d, s, c, m))

\* sumAll, setAll (1)
SumAll(d, s, framesToCopy, srcOffset, destOffset, gain) ==
    LET c == MergeArgs("SUM", framesToCopy, srcOffset, destOffset, 0, 0, gain)
        m == mergeAll(Machine, d, s, c)
    IN Commit(m, MergeRecord("sumAll", "long", d, s, c, m))

SetAll(d, s, framesToCopy, srcOffset, destOffset, gain) ==
    LET c == MergeArgs("SET", framesToCopy, srcOffset, destOffset, 0, 0, gain)
        m == mergeAll(Machine, d, s, c)
    IN Commit(m, MergeRecord("setAll", "long", d, s, c, m))

\* sumAll, setAll (2)
SumAll2(d, s, gain) ==
    LET c == MergeArgs("SUM", countFrames(Machine, s), 0, 0, 0, 0, gain)
        m == mergeAll(Machine, d, s, c)
    IN Commit(m, MergeRecord("sumAll", "short", d, s, c, m))

SetAll2(d, s, gain) ==
    LET c == MergeArgs("SET", countFrames(Machine, s), 0, 0, 0, 0, gain)
        m == mergeAll(Machine, d, s, c)
    IN Commit(m, MergeRecord("setAll", "short", d, s, c, m))

\* One single-channel call with x as the destination; the source is y or x.
SumCall ==
    /\ FirstCall
    /\ \E s \in Bufs, ftc \in FtcArgs, so \in OffsetArgs, do \in OffsetArgs,
          sc \in ChannelArgs, dc \in ChannelArgs, g \in Gains :
           Sum("x", s, ftc, so, do, sc, dc, g)

SetCall ==
    /\ FirstCall
    /\ \E s \in Bufs, ftc \in FtcArgs, so \in OffsetArgs, do \in OffsetArgs,
          sc \in ChannelArgs, dc \in ChannelArgs, g \in Gains :
           Set("x", s, ftc, so, do, sc, dc, g)

Sum2Call ==
    /\ FirstCall
    /\ \E s \in Bufs, sc \in ChannelArgs, dc \in ChannelArgs, g \in Gains :
           Sum2("x", s, sc, dc, g)

Set2Call ==
    /\ FirstCall
    /\ \E s \in Bufs, sc \in ChannelArgs, dc \in ChannelArgs, g \in Gains :
           Set2("x", s, sc, dc, g)

NextMerge ==
    \/ SumCall
    \/ SetCall
    \/ Sum2Call
    \/ Set2Call

SpecMerge == InitFilled /\ [][NextMerge]_vars

\* One all-channel call.
SumAllCall ==
    /\ FirstCall
    /\ \E d \in Bufs, s \in Bufs, ftc \in FtcArgs, so \in OffsetArgs, do \in OffsetArgs,
          g \in Gains :
           SumAll(d, s, ftc, so, do, g)

SetAllCall ==
    /\ FirstCall
    /\ \E d \in Bufs, s \in Bufs, ftc \in FtcArgs, so \in OffsetArgs, do \in OffsetArgs,
          g \in Gains :
           SetAll(d, s, ftc, so, do, g)

SumAll2Call ==
    /\ FirstCall
    /\ \E d \in Bufs, s \in Bufs, g \in Gains : SumAll2(d, s, g)

SetAll2Call ==
    /\ FirstCall
    /\ \E d \in Bufs, s \in Bufs, g \in Gains : SetAll2(d, s, g)

NextMergeAll ==
    \/ SumAllCall
    \/ SetAllCall
    \/ SumAll2Call
    \/ SetAll2Call

SpecMergeAll == InitFilled /\ [][NextMergeAll]_vars

\* ------------------------------------------------------------------ range calls

\* What came before the call: nothing (the prepared buffers), or one free()
\* or move assignment.
AfterPrep == status = "running" /\ last.op \in {"init", "free", "moveAssign"}

SampleArgs == (-1)..(MaxFrames * MaxChannels + 1)
EndArgs == (-2)..(MaxFrames * MaxChannels + 1)
FrameArgs == (-1)..(MaxFrames + 1)

ApplyGain(b, g, a, e) ==
    Commit(applyGain(Machine, b, g, a, e),
           [op |-> "applyGain", d |-> b, g |-> g, a |-> a, e |-> e, after |-> last.op])

Clear(b, a, e) ==
    Commit(clear(Machine, b, a, e),
           [op |-> "clear", d |-> b, a |-> a, e |-> e, after |-> last.op])

GetPeak(b, channel, a, e) ==
    LET r == getPeak(Machine, b, channel, a, e)
    IN Commit(r.m, [op |-> "getPeak", d |-> b, channel |-> channel, a |-> a, e |-> e,
                    ret |-> r.ret, after |-> last.op])

Index(b, offset) ==
    LET r == Subscript(Machine, b, offset)
    IN Commit(r.m, [op |-> "index", d |-> b, offset |-> offset, ret |-> r.ret,
                    after |-> last.op])

PrepFree ==
    /\ FirstCall
    /\ \E b \in Bufs : Free(b)

PrepMove ==
    /\ FirstCall
    /\ \E b \in Bufs, o \in Bufs : b # o /\ MoveAssign(b, o)

ApplyGainCall ==
    /\ AfterPrep
    /\ \E b \in Bufs, g \in Gains, a \in SampleArgs, e \in EndArgs : ApplyGain(b, g, a, e)

ClearCall ==
    /\ AfterPrep
    /\ \E b \in Bufs, a \in FrameArgs, e \in FrameArgs : Clear(b, a, e)

GetPeakCall ==
    /\ AfterPrep
    /\ \E b \in Bufs, channel \in ChannelArgs, a \in FrameArgs, e \in FrameArgs :
           GetPeak(b, channel, a, e)

IndexCall ==
    /\ AfterPrep
    /\ \E b \in Bufs, offset \in FrameArgs : Index(b, offset)

NextRange ==
    \/ PrepFree
    \/ PrepMove
    \/ ApplyGainCall
    \/ ClearCall
    \/ GetPeakCall
    \/ IndexCall

SpecRange == InitFilled /\ [][NextRange]_vars

\* ------------------------------------------------------------------ properties

Max(a, b) == IF a > b THEN a ELSE b

\* The samples buffer b holds now, and the sample at (frame f, channel c).
Data(b) == heap[bufs[b].m_data].data
At(b, f, c) == Data(b)[f * bufs[b].m_channels + c + 1]

\* The sample at (f, c) of b before the call of a one-call specification.
Was(b, f, c) == FillValue(bufs[b].m_data, f * bufs[b].m_channels + c + 1)

\* b's storage holds what it held before the call.
Unmodified(b) ==
    \/ bufs[b].m_data = NULL
    \/ /\ heap[bufs[b].m_data].st = "live"
       /\ \A i \in DOMAIN Data(b) : Data(b)[i] = FillValue(bufs[b].m_data, i)

\* C1: the array a view was constructed over is never deallocated by a buffer,
\* whatever is done to the view (destruction, free, alloc, copy or move
\* assignment into it, moving it away), so that the owner's delete[] is the
\* only one.
C1_ViewNeverDeallocates ==
    /\ heap[ExtBlock].by # "buffer"
    /\ status # "ub"

\* C2: a buffer with no frames or no channels is not allocated.
C2_ZeroDimensionUnallocated ==
    \A b \in Bufs :
        (bufs[b].alive /\ (bufs[b].m_size = 0 \/ bufs[b].m_channels = 0))
            => bufs[b].m_data = NULL

\* The preconditions of a single-channel set/sum call: an allocated
\* destination, destOffset in [0, destFrames), valid channels.
MergePreconditions ==
    /\ last.op \in {"set", "sum"}
    /\ bufs[last.d].m_data # NULL
    /\ last.destOffset >= 0 /\ last.destOffset < bufs[last.d].m_size
    /\ last.srcChannel >= 0 /\ last.srcChannel < bufs[last.s].m_channels
    /\ last.destChannel >= 0 /\ last.destChannel < bufs[last.d].m_channels

\* framesToCopy with the "copy all" sentinel resolved, and clamped to the
\* destination.
Requested ==
    IF last.framesToCopy = Sentinel THEN bufs[last.s].m_size ELSE last.framesToCopy

Clamped == Min(Requested, bufs[last.d].m_size - last.destOffset)

\* C3: with valid preconditions, framesToCopy >= 0 and srcOffset >= 0, set/sum
\* completes having written min(framesToCopy, destFrames - destOffset,
\* srcFrames - srcOffset) frames: it stops where the source ends.
C3_StopsAtSourceEnd ==
    (MergePreconditions /\ last.framesToCopy >= 0 /\ last.srcOffset >= 0)
        => /\ status = "running"
           /\ last.calls[1].written =
                  Max(0, Min(Clamped, bufs[last.s].m_size - last.srcOffset))

\* C5: a call that a precondition check aborts has modified nothing.
C5_AbortBeforeMutation ==
    status = "aborted" => \A b \in Bufs : Unmodified(b)

\* The case of C9: valid preconditions, a source range inside the source.
C9Case ==
    /\ MergePreconditions
    /\ last.srcOffset >= 0
    /\ last.srcOffset + Clamped <= bufs[last.s].m_size

\* What C9 says of the call: the destination frames [destOffset, destOffset+n)
\* of destChannel are the source's times gain (set) or that added to what was
\* there (sum); every other destination sample and the source are unchanged.
C9Effect ==
    LET d == last.d
        s == last.s
        delta == last.srcOffset - last.destOffset
    IN /\ status = "running"
       /\ \A f \in 0..(bufs[d].m_size - 1), c \in 0..(bufs[d].m_channels - 1) :
              At(d, f, c) =
                  IF c = last.destChannel /\ f >= last.destOffset
                         /\ f < last.destOffset + Clamped
                  THEN IF last.op = "set"
                       THEN Was(s, f + delta, last.srcChannel) * last.gain
                       ELSE Was(d, f, c) + Was(s, f + delta, last.srcChannel) * last.gain
                  ELSE Was(d, f, c)

\* C9 as stated: for every source, the destination itself included.
C9_Original ==
    C9Case => (C9Effect /\ Unmodified(last.s))

\* C9: set writes source * gain, sum adds it, on exactly the clamped range of
\* destChannel, and nothing else changes, when the source is another buffer
\* than the destination.
C9_SetAndSum ==
    (C9Case /\ last.s # last.d) => (C9Effect /\ Unmodified(last.s))

\* A sum of one frame with gain 2 from the second frame of a two-frame source
\* into the second frame of a two-channel destination.
C9_Witness ==
    /\ C9Case
    /\ status = "running"
    /\ last.op = "sum"
    /\ last.s # last.d
    /\ last.gain = 2
    /\ last.srcOffset = 1
    /\ last.destOffset = 1
    /\ bufs[last.s].m_size = 2
    /\ bufs[last.d].m_channels = 2
    /\ last.calls[1].written = 1

\* ---- all-channel calls (SpecMergeAll)

IsMergeAll == last.op \in {"setAll", "sumAll"}

\* C4: every sample setAll writes is the paired source sample times the
\* caller's gain, and every sample sumAll writes is what was there plus that.
C4_CallerGainApplied ==
    (IsMergeAll /\ status = "running" /\ last.s # last.d)
        => \A i \in 1..Len(last.calls) : \A k \in 0..(last.calls[i].written - 1) :
               At(last.d, last.destOffset + k, i - 1) =
                   (IF last.op = "sumAll" THEN Was(last.d, last.destOffset + k, i - 1) ELSE 0)
                   + Was(last.s, last.srcOffset + k, last.calls[i].srcChannel) * last.gain

\* An all-channel call whose every single-channel merge is within C9's case.
MergeAllCase ==
    /\ IsMergeAll
    /\ bufs[last.d].m_data # NULL
    /\ last.destOffset >= 0 /\ last.destOffset < bufs[last.d].m_size
    /\ bufs[last.s].m_channels >= 1
    /\ last.srcOffset >= 0
    /\ last.srcOffset + Clamped <= bufs[last.s].m_size

\* C10: setAll/sumAll run one single-channel merge per destination channel
\* i = 0, 1, ..., in this order, each from source channel i mod srcChannels,
\* and setAll leaves on destination channel i the samples of that source
\* channel (times the gain the merge was given).
C10_ChannelPairing ==
    IsMergeAll =>
        /\ MergeAllCase => status = "running"
        /\ status = "running" =>
               /\ Len(last.calls) = bufs[last.d].m_channels
               /\ \A i \in 1..Len(last.calls) :
                      /\ last.calls[i].destChannel = i - 1
                      /\ last.calls[i].srcChannel = (i - 1) % bufs[last.s].m_channels
                      /\ (last.op = "setAll" /\ last.s # last.d) =>
                             \A k \in 0..(last.calls[i].written - 1) :
                                 At(last.d, last.destOffset + k, i - 1) =
                                     Was(last.s, last.srcOffset + k,
                                         (i - 1) % bufs[last.s].m_channels)
                                     * last.calls[i].gain

\* A two-channel source spread over three destination channels: the third
\* reads source channel 0 again.
C10_Witness ==
    /\ last.op = "setAll"
    /\ status = "running"
    /\ last.s # last.d
    /\ bufs[last.s].m_channels = 2
    /\ bufs[last.d].m_channels = 3
    /\ Len(last.calls) = 3
    /\ last.calls[3].srcChannel = 0
    /\ last.calls[3].written = 2

\* ---- range calls (SpecRange)

\* C6: clear() and applyGain(g) on an unallocated buffer, and on a zero-length
\* range, trigger no assertion and change nothing.
C6_DegenerateNoOp ==
    LET b == last.d
        limit == IF last.op = "clear" THEN bufs[b].m_size
                 ELSE bufs[b].m_size * bufs[b].m_channels
    IN (/\ last.op \in {"clear", "applyGain"}
        /\ \/ bufs[b].m_data = NULL /\ last.a = 0 /\ last.e = Sentinel
           \/ last.a = last.e /\ last.a >= 0 /\ last.a <= limit)
           => /\ status = "running"
              /\ \A o \in Bufs : Unmodified(o)

\* C7: on an allocated buffer, applyGain(g, a, b) with 0 <= a < b <=
\* countSamples(), b given or defaulted, completes and multiplies exactly the
\* samples [a, b) by g.
C7_GainOnRange ==
    LET b == last.d
        n == bufs[b].m_size * bufs[b].m_channels
        end == IF last.e = Sentinel THEN n ELSE last.e
    IN (/\ last.op = "applyGain"
        /\ bufs[b].m_data # NULL
        /\ 0 <= last.a /\ last.a < end /\ end <= n)
           => /\ status = "running"
              /\ \A i \in 1..n :
                     Data(b)[i] = IF last.a <= i - 1 /\ i - 1 < end
                                  THEN FillValue(bufs[b].m_data, i) * last.g
                                  ELSE FillValue(bufs[b].m_data, i)

\* C8: operator[] with a frame outside [0, countFrames()), or on an
\* unallocated buffer, and getPeak with a channel outside
\* [0, countChannels()), fail their assertion.
C8_FailFast ==
    /\ (/\ last.op = "index"
        /\ \/ bufs[last.d].m_data = NULL
           \/ last.offset < 0
           \/ last.offset >= bufs[last.d].m_size)
           => status = "aborted"
    /\ (/\ last.op = "getPeak"
        /\ \/ last.channel < 0
           \/ last.channel >= bufs[last.d].m_channels)
           => status = "aborted"

\* ------------------------------------------------------------------ lifecycle claims

\* The object in slot b is in the empty/unallocated state.
IsEmpty(rec) ==
    /\ rec.m_data = NULL
    /\ rec.m_size = 0
    /\ rec.m_channels = 0
    /\ ~rec.m_viewing

\* The step is a move (construction or assignment) of last'.s into last'.d.
MoveStep == last'.op \in {"moveCtor", "moveAssign"}

\* C11: moving A into a distinct B, whatever B was, leaves B with A's prior
\* frame count, channel count, viewing flag and storage block, that block
\* holding what it held, and leaves A empty; moving a buffer into itself
\* changes nothing.
C11_MoveTransfers ==
    [][MoveStep =>
         LET B == last'.d
             A == last'.s
         IN IF A = B
            THEN heap' = heap /\ bufs' = bufs /\ status' = status
            ELSE /\ status' = "running"
                 /\ bufs'[B].m_size = bufs[A].m_size
                 /\ bufs'[B].m_channels = bufs[A].m_channels
                 /\ bufs'[B].m_viewing = bufs[A].m_viewing
                 /\ bufs'[B].m_data = bufs[A].m_data
                 /\ bufs[A].m_data # NULL =>
                        heap'[bufs[A].m_data] = heap[bufs[A].m_data]
                 /\ IsEmpty(bufs'[A])]_vars

\* The step is a copy (construction or assignment) of last'.s into another
\* buffer last'.d.
CopyStep == last'.op \in {"copyCtor", "copyAssign"} /\ last'.d # last'.s

\* The step writes one sample of buffer last'.d.
WriteStep == last'.op = "write"

\* C12: copying A into B gives B A's frame count, channel count and sample
\* values in a live storage block that is not A's, A itself staying as it was
\* (also when A is a view); a later write through one buffer changes no block
\* but that buffer's, so none of the other's samples.
C12_CopyIsDeep ==
    /\ [][CopyStep =>
            LET B == last'.d
                A == last'.s
                n == bufs[A].m_size * bufs[A].m_channels
            IN /\ status' = "running"
               /\ bufs'[A] = bufs[A]
               /\ bufs'[B].m_size = bufs[A].m_size
               /\ bufs'[B].m_channels = bufs[A].m_channels
               /\ bufs'[B].m_data # NULL
               /\ bufs'[B].m_data # bufs[A].m_data
               /\ heap'[bufs'[B].m_data].st = "live"
               /\ Len(heap'[bufs'[B].m_data].data) = n
               /\ n > 0 =>
                     /\ heap'[bufs[A].m_data] = heap[bufs[A].m_data]
                     /\ heap'[bufs'[B].m_data].data = heap[bufs[A].m_data].data]_vars
    /\ [][WriteStep =>
            \A p \in Blocks : p # bufs[last'.d].m_data => heap'[p] = heap[p]]_vars

\* The machine after the step, for the accessors.
After == [heap |-> heap', bufs |-> bufs', status |-> status', calls |-> <<>>]

\* The step is a call of free() on buffer last'.d.
FreeStep == last'.op = "free"

\* C13: free() on a buffer in any state completes and leaves it with
\* countFrames() = countSamples() = countChannels() = 0, isAllocd() false and
\* the viewing flag false, touching no other buffer; on a buffer that is
\* already empty it changes nothing and deallocates nothing.
C13_FreeEmptiesIdempotent ==
    [][FreeStep =>
         LET b == last'.d
         IN /\ status' = "running"
            /\ countFrames(After, b) = 0
            /\ countSamples(After, b) = 0
            /\ countChannels(After, b) = 0
            /\ ~isAllocd(After, b)
            /\ ~bufs'[b].m_viewing
            /\ bufs'[b].alive
            /\ \A o \in Bufs \ {b} : bufs'[o] = bufs[o]
            /\ IsEmpty(bufs[b]) => (heap' = heap /\ bufs' = bufs)]_vars

\* free() has emptied a buffer that was an owning copy of a view: it held a
\* block of its own with the viewing flag set.
C13_Witness ==
    /\ status = "running"
    /\ last.op = "free"
    /\ last.was.m_viewing
    /\ last.was.m_data \in 1..MaxBlocks
    /\ last.was.m_size = MaxFrames
    /\ IsEmpty(bufs[last.d])

\* The step is a call of alloc(last'.size, last'.channels) on buffer last'.d.
AllocStep == last'.op = "alloc"

\* C14: alloc(frames, channels) on a buffer in any state completes and leaves
\* countFrames() = frames, countChannels() = channels, countSamples() =
\* frames * channels, every sample 0, the viewing flag false, and as storage
\* a block allocated by this call: not the buffer's previous block and not a
\* block another buffer refers to.
C14_AllocFreshZeroed ==
    [][AllocStep =>
         LET b == last'.d
             p == bufs'[b].m_data
         IN /\ status' = "running"
            /\ countFrames(After, b) = last'.size
            /\ countChannels(After, b) = last'.channels
            /\ countSamples(After, b) = last'.size * last'.channels
            /\ ~bufs'[b].m_viewing
            /\ isAllocd(After, b)
            /\ heap[p].st = "unused"
            /\ heap'[p].st = "live"
            /\ heap'[p].data = Zeros(last'.size * last'.channels)
            /\ p # bufs[b].m_data
            /\ \A o \in Bufs \ {b} : bufs'[o].m_data # p /\ bufs'[o] = bufs[o]]_vars

\* alloc() has re-allocated a view of the external array while that array
\* held a non-zero sample: the buffer now owns two zeroed samples.
C14_Witness ==
    /\ status = "running"
    /\ last.op = "alloc"
    /\ last.size * last.channels = 2
    /\ last.was.m_viewing
    /\ last.was.m_data = ExtBlock
    /\ heap[ExtBlock].st = "live"
    /\ \E i \in DOMAIN heap[ExtBlock].data : heap[ExtBlock].data[i] # 0
    /\ ~bufs[last.d].m_viewing
    /\ Data(last.d) = Zeros(2)

\* The blocks the buffers allocate themselves (make_unique in alloc and copy).
OwnBlocks == 1..MaxBlocks

\* The live buffers whose m_data is block p.
Holders(p) == {b \in Bufs : bufs[b].alive /\ bufs[b].m_data = p}

\* C15: a block a buffer allocated is deallocated exactly once, by the buffer
\* holding it: while it is live exactly one live buffer holds it, and that
\* buffer is an owner (viewing flag false, also for the copy of a view); once
\* no buffer holds it, it has been deallocated by a buffer (no leak), and a
\* deallocated block is held by no buffer (no second delete[]).
C15_OwnBlocksFreedOnce ==
    status = "running" =>
        \A p \in OwnBlocks :
            /\ heap[p].st = "live" =>
                  /\ Cardinality(Holders(p)) = 1
                  /\ \A b \in Holders(p) : ~bufs[b].m_viewing
            /\ heap[p].st = "freed" =>
                  /\ heap[p].by = "buffer"
                  /\ Holders(p) = {}

====
